---- MODULE Spec2Model ----
(***************************************************************************)
(* A model of the toggl command line assistant (src/src/toggl/main.py):    *)
(* the 15-minute rounding of start and stop times, the persisted project   *)
(* configuration with its aliases and default project, the interactive     *)
(* project menu, and the start / end commands against the remote service.  *)
(*                                                                         *)
(* Conventions.  A Python str is a sequence of character codes, so that    *)
(* lower(), strip() and the lexicographic order are computed and not       *)
(* assumed.  An optional value (x | None) is a sequence of length at most  *)
(* one: None is <<>> and a present value v is <<v>>.  A datetime is the    *)
(* record of its fields, with the calendar date reduced to a day number.   *)
(***************************************************************************)
EXTENDS Integers, Sequences, FiniteSets

VARIABLES
    remote,   \* the service's projects: which ids are active, and their generation
    cfg,      \* the contents of CONFIG_FILE, or NoFile
    pc,       \* "shell": no command is running; "menu": inside select_project_menu_loop
    menu,     \* the ProjectMenu of the running `projects` command
    edited,   \* ids whose alias the user changed or removed in the running (or last) session
    clock,    \* the wall clock (UTC)
    running,  \* the service's running time entries
    nextId,   \* the id the service gives to the next time entry
    request,  \* the last mutating request the tool issued (POST / PATCH)
    out,      \* what the last command reported: command, exit code, message
    arg,      \* argument of the function under test (function-level specifications)
    ret       \* its result

vars == <<remote, cfg, pc, menu, edited, clock, running, nextId, request, out, arg, ret>>

-----------------------------------------------------------------------------
(* Bounds of the model.                                                    *)

\* Calendar days the clock and the sampled timestamps range over: 0..MaxDay.
MaxDay == 0

\* Project ids the service knows: 0..MaxProjectId.
MaxProjectId == 1

\* Time entries the service creates in one run.
MaxEntries == 2

-----------------------------------------------------------------------------
(* Optional values and Python truthiness.                                  *)

None == <<>>

Some(v) == <<v>>

\* bool(s) of an optional str: None and "" are falsy.
TruthyStr(o) == o # None /\ o[1] # <<>>

\* bool(n) of an optional int: None and 0 are falsy.
TruthyInt(o) == o # None /\ o[1] # 0

-----------------------------------------------------------------------------
(* Strings.                                                                *)

\* str.lower() on ASCII: 'A'..'Z' (65..90) map to 'a'..'z'.
Lower(s) == [i \in 1..Len(s) |-> IF s[i] >= 65 /\ s[i] <= 90 THEN s[i] + 32 ELSE s[i]]

RECURSIVE LStrip(_)
LStrip(s) == IF s # <<>> /\ Head(s) = 32 THEN LStrip(Tail(s)) ELSE s

RECURSIVE RStrip(_)
RStrip(s) == IF s # <<>> /\ s[Len(s)] = 32 THEN RStrip(SubSeq(s, 1, Len(s) - 1)) ELSE s

\* str.strip(): leading and trailing blanks removed.
Strip(s) == RStrip(LStrip(s))

\* s < t for Python strings: lexicographic by code point.
RECURSIVE StrLt(_, _)
StrLt(s, t) ==
    IF t = <<>> THEN FALSE
    ELSE IF s = <<>> THEN TRUE
    ELSE IF Head(s) # Head(t) THEN Head(s) < Head(t)
    ELSE StrLt(Tail(s), Tail(t))

-----------------------------------------------------------------------------
(* Datetimes and timedeltas.                                               *)

DateTime(d, h, m, s, us) ==
    [day |-> d, hour |-> h, minute |-> m, second |-> s, microsecond |-> us]

\* timedelta(days, seconds, microseconds), normalised as Python keeps it.
TimeDelta(d, s, us) == [days |-> d, seconds |-> s, microseconds |-> us]

SecondOfDay(dt) == dt.hour * 3600 + dt.minute * 60 + dt.second

\* datetime < datetime
DtLt(a, b) ==
    \/ a.day < b.day
    \/ a.day = b.day /\ SecondOfDay(a) < SecondOfDay(b)
    \/ a.day = b.day /\ SecondOfDay(a) = SecondOfDay(b) /\ a.microsecond < b.microsecond

DtLe(a, b) == a = b \/ DtLt(a, b)

\* datetime + timedelta
DtAdd(dt, td) ==
    LET us  == dt.microsecond + td.microseconds
        sec == SecondOfDay(dt) + td.seconds + (us \div 1000000)
        s   == sec % 86400
    IN  DateTime(dt.day + td.days + (sec \div 86400),
                 s \div 3600, (s % 3600) \div 60, s % 60, us % 1000000)

\* datetime - datetime
DtSub(a, b) ==
    LET us  == a.microsecond - b.microsecond
        sec == SecondOfDay(a) - SecondOfDay(b) + (us \div 1000000)
    IN  TimeDelta(a.day - b.day + (sec \div 86400), sec % 86400, us % 1000000)

\* timedelta < timedelta
TdLt(x, y) ==
    \/ x.days < y.days
    \/ x.days = y.days /\ x.seconds < y.seconds
    \/ x.days = y.days /\ x.seconds = y.seconds /\ x.microseconds < y.microseconds

\* timedelta(minutes=15)
FifteenMinutes == TimeDelta(0, 15 * 60, 0)

-----------------------------------------------------------------------------
(* Time rounding.                                                          *)

\* A rounding down that leaves the microseconds in place.
round_time_down_late(dt) ==
    [dt EXCEPT !.minute = (dt.minute \div 15) * 15, !.second = 0]

\* _round_time_down: minute truncated to a multiple of 15, second and
\* microsecond set to zero.
round_time_down(dt) ==
    [dt EXCEPT !.minute = (dt.minute \div 15) * 15, !.second = 0, !.microsecond = 0]

\* A rounding up that moves a timestamp on a boundary to the next one.
round_time_up_always(dt) == DtAdd(round_time_down(dt), FifteenMinutes)

\* _round_time_up: dt itself on a 15-minute boundary, else the next boundary.
round_time_up(dt) ==
    IF dt.minute % 15 = 0 /\ dt.second = 0 /\ dt.microsecond = 0
    THEN dt
    ELSE DtAdd(round_time_down(dt), FifteenMinutes)

\* The timestamps the rounding functions are applied to: every minute of two
\* hours of each day (the last hour makes rounding up cross midnight), with
\* seconds and microseconds at and next to their ends.
Timestamps ==
    { DateTime(d, h, m, s, us) :
        d \in 0..MaxDay, h \in {10, 23}, m \in 0..59, s \in {0, 1, 59}, us \in {0, 1, 999999} }

-----------------------------------------------------------------------------
(* Projects and their ordering.                                            *)

\* DEFAULT_CLIENT = "Lunatech"
DEFAULT_CLIENT == <<76, 117, 110, 97, 116, 101, 99, 104>>

\* The dataclass Project.
Project(id, name, workspace_id, client, alias, billable) ==
    [id |-> id, name |-> name, workspace_id |-> workspace_id,
     client |-> client, alias |-> alias, billable |-> billable]

\* A variant that ranks projects without a client before the fallback client.
get_sort_key_unset_first(p) ==
    [rank   |-> IF p.client = None THEN 1
                ELSE IF p.client[1] = DEFAULT_CLIENT THEN 2
                ELSE 0,
     client |-> p.client,
     name   |-> p.name]

\* Project._get_sort_key: (client_rank, client, name).
get_sort_key(p) ==
    [rank   |-> IF p.client = None THEN 2
                ELSE IF p.client[1] = DEFAULT_CLIENT THEN 1
                ELSE 0,
     client |-> p.client,
     name   |-> p.name]

\* Tuple comparison of two sort keys: the first differing component decides.
\* Keys of equal rank have clients that are both None or both strings.
KeyLt(a, b) ==
    IF a.rank # b.rank THEN a.rank < b.rank
    ELSE IF a.client # b.client THEN StrLt(a.client[1], b.client[1])
    ELSE StrLt(a.name, b.name)

\* Project.__lt__
ProjectLt(p, q) == KeyLt(get_sort_key(p), get_sort_key(q))

\* list.sort() is stable: an element goes before the first one it is less than.
RECURSIVE InsertSorted(_, _)
InsertSorted(x, s) ==
    IF s = <<>> THEN <<x>>
    ELSE IF ProjectLt(x, Head(s)) THEN <<x>> \o s
    ELSE <<Head(s)>> \o InsertSorted(x, Tail(s))

RECURSIVE SortProjects(_)
SortProjects(s) ==
    IF s = <<>> THEN <<>>
    ELSE InsertSorted(s[Len(s)], SortProjects(SubSeq(s, 1, Len(s) - 1)))

-----------------------------------------------------------------------------
(* The remote service's projects and clients (GET /me?with_related_data).  *)

ProjectIds == 0..MaxProjectId

\* The service renames and regroups its projects from one generation to the next.
Generations == {0, 1}

RemoteStates == [active : SUBSET ProjectIds, gen : Generations]

\* "clients" of the response: Acme and the fallback client.
ClientsData ==
    << [id |-> 10, name |-> <<65, 99, 109, 101>>],
       [id |-> 11, name |-> DEFAULT_CLIENT] >>

\* One element of "projects" of the response, for project i in generation g:
\* named "p<i>" then "P<i>", its client rotating through the fallback client,
\* Acme and no client, with workspace and billable flag changing too.
RawProject(i, g, active) ==
    [id |-> i,
     name |-> <<(IF g = 0 THEN 112 ELSE 80), 48 + i>>,
     workspace_id |-> 100 + ((i + g) % 2),
     client_id |-> IF (i + g) % 3 = 0 THEN Some(11)
                   ELSE IF (i + g) % 3 = 1 THEN Some(10)
                   ELSE None,
     billable |-> (i + g) % 2 = 0,
     active |-> active,
     is_private |-> (g = 1 /\ i % 2 = 1)]

\* The body of the /me response in remote state r: every project the service
\* knows, archived ones included.
MeData(r) ==
    [clients  |-> ClientsData,
     projects |-> [k \in 1..(MaxProjectId + 1) |-> RawProject(k - 1, r.gen, (k - 1) \in r.active)]]

\* clients_map.get(client_id): the name of the last client with that id, or None.
ClientsMapGet(clients, client_id) ==
    LET hits == {k \in 1..Len(clients) : client_id # None /\ clients[k].id = client_id[1]}
    IN  IF hits = {} THEN None
        ELSE Some(clients[CHOOSE k \in hits : \A j \in hits : j <= k].name)

\* The comprehension's filter: p["active"] and not p["is_private"].
RECURSIVE ActivePublic(_)
ActivePublic(raw) ==
    IF raw = <<>> THEN <<>>
    ELSE IF Head(raw).active /\ ~Head(raw).is_private
         THEN <<Head(raw)>> \o ActivePublic(Tail(raw))
         ELSE ActivePublic(Tail(raw))

\* _fetch_projects: the active, non-private projects of the response, as
\* Project records without alias, sorted by Project.__lt__.
fetch_projects(r) ==
    LET me   == MeData(r)
        kept == ActivePublic(me.projects)
    IN  IF me.projects = <<>> THEN <<>>
        ELSE SortProjects([k \in 1..Len(kept) |->
                            Project(kept[k].id, kept[k].name, kept[k].workspace_id,
                                    ClientsMapGet(me.clients, kept[k].client_id),
                                    None, kept[k].billable)])

-----------------------------------------------------------------------------
(* Config: the projects keyed by id, in insertion order, and the default.  *)

Config(projects, default_project_id) ==
    [projects |-> projects, default_project_id |-> default_project_id]

\* dict[id] = project: an existing key keeps its place and takes the new value.
DictPut(d, p) ==
    IF \E k \in 1..Len(d) : d[k].id = p.id
    THEN [k \in 1..Len(d) |-> IF d[k].id = p.id THEN p ELSE d[k]]
    ELSE Append(d, p)

\* _projects_to_dict
RECURSIVE projects_to_dict(_)
projects_to_dict(projects) ==
    IF projects = <<>> THEN <<>>
    ELSE DictPut(projects_to_dict(SubSeq(projects, 1, Len(projects) - 1)),
                 projects[Len(projects)])

\* dict.get(key), the key an optional int: the project with that id, or None.
DictGet(d, key) ==
    LET hits == {k \in 1..Len(d) : key # None /\ d[k].id = key[1]}
    IN  IF hits = {} THEN None ELSE Some(d[CHOOSE k \in hits : TRUE])

Ids(projects) == {projects[k].id : k \in 1..Len(projects)}

\* Config._get_default_project: the lookup is made only for a truthy id.
get_default_project(config) ==
    IF TruthyInt(config.default_project_id)
    THEN DictGet(config.projects, config.default_project_id)
    ELSE None

\* The loop of get_project: the first project, in dict order, whose alias is
\* the selector or whose name is the selector ignoring case.
FirstMatch(projects, selector) ==
    LET hits == {k \in 1..Len(projects) :
                    \/ TruthyStr(projects[k].alias) /\ projects[k].alias[1] = selector
                    \/ Lower(projects[k].name) = Lower(selector)}
    IN  IF hits = {} THEN None
        ELSE Some(projects[CHOOSE k \in hits : \A j \in hits : k <= j])

\* Config.get_project; the selector is an optional str (None without -p).
get_project(config, selector) ==
    IF ~TruthyStr(selector) THEN get_default_project(config)
    ELSE FirstMatch(config.projects, selector[1])

-----------------------------------------------------------------------------
(* What a command reports: its name, its exit status (0 while it is still  *)
(* running) and the last message it printed.                               *)

Out(cmd, exit, msg) == [cmd |-> cmd, exit |-> exit, msg |-> msg]

NoMenu == [projects |-> <<>>, default_project_id |-> None]

NoRequest == [method |-> "none"]

Midnight == DateTime(0, 0, 0, 0, 0)

\* The parts of the state the project commands leave alone.
TrackUnchanged == UNCHANGED <<clock, running, nextId, request, arg, ret>>

-----------------------------------------------------------------------------
(* init                                                                    *)

\* handle_init: the fetched projects, without alias or default, are saved.
HandleInit ==
    /\ pc = "shell"
    /\ cfg' = Some(Config(projects_to_dict(fetch_projects(remote)), None))
    /\ out' = Out("init", 0, "Setup complete")
    /\ edited' = {}
    /\ UNCHANGED <<remote, pc, menu>>
    /\ TrackUnchanged

-----------------------------------------------------------------------------
(* projects                                                                *)

\* A merge that takes the fetched projects as they are.
merge_without_alias(old_config, new_projects) == new_projects

\* A merge that keeps the old record of a known project, not only its alias.
merge_whole_old_project(old_config, new_projects) ==
    [k \in 1..Len(new_projects) |->
        LET old_project == DictGet(old_config.projects, Some(new_projects[k].id))
        IN  IF old_project # None THEN old_project[1] ELSE new_projects[k]]

\* The merge loop of handle_projects: a fetched project whose id is in the
\* old config takes the old project's alias.
merge_aliases(old_config, new_projects) ==
    [k \in 1..Len(new_projects) |->
        LET old_project == DictGet(old_config.projects, Some(new_projects[k].id))
        IN  IF old_project # None
            THEN [new_projects[k] EXCEPT !.alias = old_project[1].alias]
            ELSE new_projects[k]]

\* new_default_id of handle_projects: the old default, when it is truthy and
\* among the fetched ids.
merge_default(old_config, new_projects) ==
    IF /\ TruthyInt(old_config.default_project_id)
       /\ \E k \in 1..Len(new_projects) : new_projects[k].id = old_config.default_project_id[1]
    THEN old_config.default_project_id
    ELSE None

\* handle_projects up to the first menu: the config is loaded (the command
\* exits when there is none), the projects are fetched and merged.
HandleProjects ==
    /\ pc = "shell"
    /\ edited' = {}
    /\ IF cfg = None
       THEN /\ out' = Out("projects", 1, "Setup incomplete")
            /\ UNCHANGED <<pc, menu>>
       ELSE LET new_projects == fetch_projects(remote)
            IN  /\ menu' = [projects |-> merge_aliases(cfg[1], new_projects),
                            default_project_id |-> merge_default(cfg[1], new_projects)]
                /\ pc' = "menu"
                /\ out' = Out("projects", 0, "Select a Project")
    /\ UNCHANGED <<remote, cfg>>
    /\ TrackUnchanged

\* What the user may type at the alias prompt: nothing, "a", " a", "b ".
AliasInputs == { <<>>, <<97>>, <<32, 97>>, <<98, 32>> }

\* An alias check that finds nothing.
is_alias_used_never(m, alias) == FALSE

\* ProjectMenu._is_alias_used
is_alias_used(m, alias) == \E k \in 1..Len(m.projects) : m.projects[k].alias = Some(alias)

\* One turn of the menu loop: project idx is selected, "[a] Change Alias" is
\* chosen and `typed` is entered (_show_change_alias_menu).
MenuChangeAlias(idx, typed) ==
    LET selected_project == menu.projects[idx]
        new_alias_val    == Strip(typed)
    IN  /\ pc = "menu"
        /\ idx \in 1..Len(menu.projects)
        /\ IF new_alias_val = <<>> \/ Some(new_alias_val) = selected_project.alias
           THEN /\ out' = Out("projects", 0, "Alias not changed")
                /\ UNCHANGED <<menu, edited>>
           ELSE IF is_alias_used(menu, new_alias_val)
           THEN /\ out' = Out("projects", 0, "Alias already in use")
                /\ UNCHANGED <<menu, edited>>
           ELSE /\ menu' = [menu EXCEPT !.projects[idx].alias = Some(new_alias_val)]
                /\ edited' = edited \cup {selected_project.id}
                /\ out' = Out("projects", 0, "Alias changed")
        /\ UNCHANGED <<remote, cfg, pc>>
        /\ TrackUnchanged

\* Project idx is selected and "[r] Remove Alias" is chosen; the entry is
\* offered only for a project with a truthy alias.
MenuRemoveAlias(idx) ==
    /\ pc = "menu"
    /\ idx \in 1..Len(menu.projects)
    /\ TruthyStr(menu.projects[idx].alias)
    /\ menu' = [menu EXCEPT !.projects[idx].alias = None]
    /\ edited' = edited \cup {menu.projects[idx].id}
    /\ out' = Out("projects", 0, "Alias removed")
    /\ UNCHANGED <<remote, cfg, pc>>
    /\ TrackUnchanged

\* Project idx is selected and "[d] Set as default project" is chosen; the
\* entry is offered only for a project that is not the default.
MenuSetDefault(idx) ==
    /\ pc = "menu"
    /\ idx \in 1..Len(menu.projects)
    /\ Some(menu.projects[idx].id) # menu.default_project_id
    /\ menu' = [menu EXCEPT !.default_project_id = Some(menu.projects[idx].id)]
    /\ out' = Out("projects", 0, "Default set")
    /\ UNCHANGED <<remote, cfg, pc, edited>>
    /\ TrackUnchanged

\* Project idx is selected and "[b] Back" is chosen, or Esc is pressed in the
\* action menu: nothing is printed and nothing changes.
MenuBack(idx) ==
    /\ pc = "menu"
    /\ idx \in 1..Len(menu.projects)
    /\ UNCHANGED <<remote, cfg, pc, menu, edited, out>>
    /\ TrackUnchanged

\* ProjectMenu._make_config
make_config(m) == Config(projects_to_dict(m.projects), m.default_project_id)

\* "[q] Save and quit": the menu's config is saved and the command ends.
MenuSaveQuit ==
    /\ pc = "menu"
    /\ cfg' = Some(make_config(menu))
    /\ pc' = "shell"
    /\ menu' = NoMenu
    /\ out' = Out("projects", 0, "Configuration saved")
    /\ UNCHANGED <<remote, edited>>
    /\ TrackUnchanged

\* An Esc that saves like "save and quit".
MenuCancel_saving ==
    /\ pc = "menu"
    /\ cfg' = Some(make_config(menu))
    /\ pc' = "shell"
    /\ menu' = NoMenu
    /\ out' = Out("projects", 0, "Quit without saving")
    /\ UNCHANGED <<remote, edited>>
    /\ TrackUnchanged

\* Esc in the project list: the command ends without saving.
MenuCancel ==
    /\ pc = "menu"
    /\ pc' = "shell"
    /\ menu' = NoMenu
    /\ out' = Out("projects", 0, "Quit without saving")
    /\ UNCHANGED <<remote, cfg, edited>>
    /\ TrackUnchanged

\* The service's projects change between two commands: projects are archived
\* or restored, and a new generation renames and regroups them.
RemoteChange ==
    /\ pc = "shell"
    /\ \E r \in RemoteStates : r # remote /\ remote' = r
    /\ UNCHANGED <<cfg, pc, menu, edited, out>>
    /\ TrackUnchanged

InitConfig ==
    /\ remote \in RemoteStates
    /\ cfg = None
    /\ pc = "shell"
    /\ menu = NoMenu
    /\ edited = {}
    /\ clock = Midnight
    /\ running = {}
    /\ nextId = 1
    /\ request = NoRequest
    /\ out = Out("none", 0, "")
    /\ arg = None
    /\ ret = None

\* The service's projects change only between commands: the tool fetches
\* them once per command, so a change during a menu session shows exactly as
\* one right after it.
NextConfig ==
    \/ HandleInit
    \/ HandleProjects
    \/ \E idx \in 1..(MaxProjectId + 1), typed \in AliasInputs : MenuChangeAlias(idx, typed)
    \/ \E idx \in 1..(MaxProjectId + 1) : MenuRemoveAlias(idx)
    \/ \E idx \in 1..(MaxProjectId + 1) : MenuSetDefault(idx)
    \/ \E idx \in 1..(MaxProjectId + 1) : MenuBack(idx)
    \/ MenuSaveQuit
    \/ MenuCancel
    \/ RemoteChange

\* The init and projects commands, with the service's projects changing.
SpecConfig == InitConfig /\ [][NextConfig]_vars

-----------------------------------------------------------------------------
(* Claims about the configuration (checked under SpecConfig).              *)

\* The alias the config holds for project id, None when it has no such project.
AliasOf(config, id) ==
    LET p == DictGet(config.projects, Some(id))
    IN  IF p = None THEN None ELSE p[1].alias

\* The user changed or removed the alias of project id in the running session.
UserEdited(id) == pc = "menu" /\ id \in edited

\* The ids in the service's response, archived and private projects included.
ReturnedIds(r) == {MeData(r).projects[k].id : k \in 1..Len(MeData(r).projects)}

\* C5 as claimed: across every step of init or projects, a project that has
\* an alias in the config file, that the service still returns and whose
\* alias the user did not touch, is in the new config file with that alias.
C5_AliasSurvivesInitAndProjects ==
    [][ (cfg # None /\ cfg' # None /\ cfg' # cfg) =>
            \A id \in Ids(cfg[1].projects) :
                (AliasOf(cfg[1], id) # None /\ id \in ReturnedIds(remote) /\ ~UserEdited(id))
                    => (id \in Ids(cfg'[1].projects) /\ AliasOf(cfg'[1], id) = AliasOf(cfg[1], id)) ]_vars

\* C5 amended: across every step that is not an init, a project that has an
\* alias in the config file, that is still in the new config file (the fetch
\* kept it: active and not private) and whose alias the user did not touch,
\* has the same alias there; and init leaves no alias at all.
C5_AliasSurvivesProjects ==
    [][ /\ (cfg # None /\ cfg' # None /\ out'.cmd # "init") =>
               \A id \in Ids(cfg[1].projects) \cap Ids(cfg'[1].projects) :
                   (AliasOf(cfg[1], id) # None /\ ~UserEdited(id))
                       => AliasOf(cfg'[1], id) = AliasOf(cfg[1], id)
        /\ (out'.cmd = "init" /\ (out' # out \/ cfg' # cfg)) =>
               \A id \in Ids(cfg'[1].projects) : AliasOf(cfg'[1], id) = None ]_vars

\* A saved config holds an alias that was set in an earlier session and
\* came through the merge of this one untouched.
C5_Witness ==
    /\ pc = "shell"
    /\ out.msg = "Configuration saved"
    /\ \E id \in Ids(cfg[1].projects) : AliasOf(cfg[1], id) # None /\ id \notin edited

\* C6: when projects opens its menu, the menu lists the fetched projects,
\* each with the fetched name, workspace, client and billable flag, and
\* with the alias the old config has for its id (none for a new id).
C6_RefreshMerge ==
    [][ (pc = "shell" /\ pc' = "menu") =>
            LET fresh == fetch_projects(remote)
            IN  /\ Len(menu'.projects) = Len(fresh)
                /\ \A k \in 1..Len(fresh) :
                    /\ menu'.projects[k] = [fresh[k] EXCEPT !.alias = menu'.projects[k].alias]
                    /\ menu'.projects[k].alias =
                           IF fresh[k].id \in Ids(cfg[1].projects)
                           THEN AliasOf(cfg[1], fresh[k].id)
                           ELSE None ]_vars

\* The menu has just opened on a project that kept its alias while its
\* name, workspace, client and billable flag all changed, beside a project
\* that is new to the config.
C6_Witness ==
    /\ pc = "menu"
    /\ out.msg = "Select a Project"
    /\ \E k \in 1..Len(menu.projects), j \in 1..Len(cfg[1].projects) :
        /\ menu.projects[k].id = cfg[1].projects[j].id
        /\ menu.projects[k].alias # None
        /\ menu.projects[k].alias = cfg[1].projects[j].alias
        /\ menu.projects[k].name # cfg[1].projects[j].name
        /\ menu.projects[k].workspace_id # cfg[1].projects[j].workspace_id
        /\ menu.projects[k].client # cfg[1].projects[j].client
        /\ menu.projects[k].billable # cfg[1].projects[j].billable
    /\ \E k \in 1..Len(menu.projects) : menu.projects[k].id \notin Ids(cfg[1].projects)

\* C7 as claimed: the default of a persisted config is unset or the id of
\* one of its projects; and when projects opens its menu, the default is the
\* old default if its id is among the fetched projects, and unset otherwise.
C7_DefaultReferencesProject ==
    /\ [](cfg # None =>
            \/ cfg[1].default_project_id = None
            \/ cfg[1].default_project_id[1] \in Ids(cfg[1].projects))
    /\ [][ (pc = "shell" /\ pc' = "menu") =>
            menu'.default_project_id =
                IF /\ cfg[1].default_project_id # None
                   /\ cfg[1].default_project_id[1] \in Ids(fetch_projects(remote))
                THEN cfg[1].default_project_id
                ELSE None ]_vars

\* No two projects share an alias.
AliasesDistinct(projects) ==
    \A i, j \in 1..Len(projects) :
        (i # j /\ projects[i].alias # None) => projects[i].alias # projects[j].alias

\* C8: in the menu no two projects ever share an alias; and entering, for
\* one project, an alias that another project has changes nothing in the
\* menu, reports the conflict and leaves the menu loop running.
C8_AliasUniqueness ==
    /\ [](pc = "menu" => AliasesDistinct(menu.projects))
    /\ [][ \A idx \in 1..(MaxProjectId + 1), typed \in AliasInputs :
            ( /\ MenuChangeAlias(idx, typed)
              /\ \E j \in 1..Len(menu.projects) :
                    j # idx /\ menu.projects[j].alias = Some(Strip(typed)) )
                => (menu' = menu /\ cfg' = cfg /\ pc' = "menu"
                    /\ out' = Out("projects", 0, "Alias already in use")) ]_vars

\* A conflict has just been reported and the menu is still open.
C8_Witness ==
    /\ pc = "menu"
    /\ out.msg = "Alias already in use"
    /\ \E k \in 1..Len(menu.projects) : menu.projects[k].alias # None

\* C9: while the menu is open the config file changes only by "save and
\* quit", which writes the menu's projects (with their aliases) and default;
\* every other turn, cancel included, leaves the file as it was.
C9_SaveOnlyOnQuit ==
    [][ pc = "menu" =>
            /\ (cfg' # cfg \/ out'.msg = "Configuration saved") =>
                   /\ pc' = "shell"
                   /\ out' = Out("projects", 0, "Configuration saved")
                   /\ cfg' = Some([projects |-> menu.projects,
                                   default_project_id |-> menu.default_project_id])
            /\ out'.msg = "Quit without saving" => (pc' = "shell" /\ cfg' = cfg) ]_vars

\* The session was cancelled after aliases were edited, and the file still
\* holds none of them.
C9_Witness ==
    /\ pc = "shell"
    /\ out.msg = "Quit without saving"
    /\ edited # {}
    /\ \A id \in Ids(cfg[1].projects) : AliasOf(cfg[1], id) = None

-----------------------------------------------------------------------------
(* The rounding functions applied to sampled timestamps.                   *)

InitRound ==
    /\ arg \in Timestamps
    /\ ret = [fn |-> "none"]
    /\ remote = [active |-> {}, gen |-> 0]
    /\ cfg = None
    /\ pc = "shell"
    /\ menu = NoMenu
    /\ edited = {}
    /\ clock = Midnight
    /\ running = {}
    /\ nextId = 1
    /\ request = NoRequest
    /\ out = Out("none", 0, "")

CallRoundDown ==
    /\ ret' = [fn |-> "round_time_down", value |-> round_time_down(arg)]
    /\ UNCHANGED <<remote, cfg, pc, menu, edited, clock, running, nextId, request, out, arg>>

CallRoundUp ==
    /\ ret' = [fn |-> "round_time_up", value |-> round_time_up(arg)]
    /\ UNCHANGED <<remote, cfg, pc, menu, edited, clock, running, nextId, request, out, arg>>

NextRound == CallRoundDown \/ CallRoundUp

SpecRound == InitRound /\ [][NextRound]_vars

\* dt is exactly on a 15-minute boundary.
OnBoundary(dt) == dt.minute % 15 = 0 /\ dt.second = 0 /\ dt.microsecond = 0

\* C2: _round_time_down(t) is on a 15-minute boundary, is not after t and
\* is less than 15 minutes before t.
C2_RoundDown ==
    ret.fn = "round_time_down" =>
        /\ ret.value.minute % 15 = 0
        /\ ret.value.second = 0
        /\ ret.value.microsecond = 0
        /\ DtLe(ret.value, arg)
        /\ TdLt(DtSub(arg, ret.value), FifteenMinutes)

\* A timestamp off the boundary in minute, second and microsecond was rounded down.
C2_Witness ==
    /\ ret.fn = "round_time_down"
    /\ arg.minute = 59 /\ arg.second = 59 /\ arg.microsecond = 999999
    /\ ret.value.minute = 45

\* C3: _round_time_up(t) is not before t; it is t when t is on a 15-minute
\* boundary, and _round_time_down(t) + 15 minutes otherwise: the first
\* boundary after t.
C3_RoundUp ==
    ret.fn = "round_time_up" =>
        /\ DtLe(arg, ret.value)
        /\ OnBoundary(ret.value)
        /\ TdLt(DtSub(ret.value, arg), FifteenMinutes)
        /\ OnBoundary(arg) => ret.value = arg
        /\ ~OnBoundary(arg) =>
               /\ ret.value = DtAdd(round_time_down(arg), FifteenMinutes)
               /\ DtLt(arg, ret.value)

\* A timestamp of the last quarter of a day was rounded up to the next
\* day's midnight.
C3_Witness ==
    /\ ret.fn = "round_time_up"
    /\ arg.hour = 23 /\ arg.minute = 45 /\ arg.microsecond = 1
    /\ ret.value = DateTime(arg.day + 1, 0, 0, 0, 0)

-----------------------------------------------------------------------------
(* Config.get_project applied to configs the projects command can save.    *)

\* The aliases the menu can set: what strip() leaves of a typed input.
AliasValues == {Strip(typed) : typed \in AliasInputs} \ {<<>>}

\* Selectors: none, "", "a", "A", "p0", "P0", "P1", "zz".
Selectors ==
    { None, Some(<<>>), Some(<<97>>), Some(<<65>>), Some(<<112, 48>>),
      Some(<<80, 48>>), Some(<<80, 49>>), Some(<<122, 122>>) }

\* Every way to give the projects pairwise distinct aliases, or none.
AliasAssignments ==
    { f \in [ProjectIds -> {None} \cup {Some(a) : a \in AliasValues}] :
        \A i, j \in ProjectIds : (i # j /\ f[i] # None) => f[i] # f[j] }

WithAliases(projects, f) ==
    [k \in 1..Len(projects) |-> [projects[k] EXCEPT !.alias = f[projects[k].id]]]

\* The configs `projects` can save: some fetch, any distinct aliases, and no
\* default or one of the fetched projects as default.
SavedConfigs ==
    { c \in { Config(WithAliases(fetch_projects(r), f), d) :
                r \in RemoteStates, f \in AliasAssignments,
                d \in {None} \cup {Some(i) : i \in ProjectIds} } :
        c.default_project_id = None \/ c.default_project_id[1] \in Ids(c.projects) }

InitLookup ==
    /\ arg \in [config : SavedConfigs, selector : Selectors]
    /\ ret = [fn |-> "none"]
    /\ remote = [active |-> {}, gen |-> 0]
    /\ cfg = None
    /\ pc = "shell"
    /\ menu = NoMenu
    /\ edited = {}
    /\ clock = Midnight
    /\ running = {}
    /\ nextId = 1
    /\ request = NoRequest
    /\ out = Out("none", 0, "")

CallGetProject ==
    /\ ret' = [fn |-> "get_project", value |-> get_project(arg.config, arg.selector)]
    /\ UNCHANGED <<remote, cfg, pc, menu, edited, clock, running, nextId, request, out, arg>>

NextLookup == CallGetProject

SpecLookup == InitLookup /\ [][NextLookup]_vars

\* The project's alias is the selector, or its name is the selector ignoring case.
Matches(p, selector) == p.alias = Some(selector) \/ Lower(p.name) = Lower(selector)

\* C4 as claimed: a non-empty selector that matches some project returns a
\* project of the config that it matches; an empty selector returns none
\* when no default is set and the default project when one is set, whatever
\* its id.
C4_GetProject ==
    ret.fn = "get_project" =>
        LET projects == arg.config.projects
            default  == arg.config.default_project_id
        IN  /\ ( /\ TruthyStr(arg.selector)
                 /\ \E k \in 1..Len(projects) : Matches(projects[k], arg.selector[1]) )
                   => \E k \in 1..Len(projects) :
                        /\ ret.value = Some(projects[k])
                        /\ Matches(projects[k], arg.selector[1])
            /\ (~TruthyStr(arg.selector) /\ default = None) => ret.value = None
            /\ (~TruthyStr(arg.selector) /\ default # None) =>
                   /\ ret.value # None
                   /\ ret.value[1].id = default[1]
                   /\ \E k \in 1..Len(projects) : ret.value = Some(projects[k])

-----------------------------------------------------------------------------
(* start and end against the service's time entries.                       *)

\* _format_iso: isoformat(timespec="seconds") keeps the fields down to the
\* second and drops the microseconds.
format_iso(dt) == [day |-> dt.day, hour |-> dt.hour, minute |-> dt.minute, second |-> dt.second]

\* datetime.fromisoformat of a timestamp with seconds precision.
fromisoformat(s) == DateTime(s.day, s.hour, s.minute, s.second, 0)

\* The instants at which a command reads the clock: on a boundary, inside
\* the quarters after it, and in the last quarter of the day; each on the
\* second and half a second later.
ClockReadings ==
    { DateTime(d, hm[1], hm[2], 0, us) :
        d \in 0..MaxDay,
        hm \in { <<10, 0>>, <<10, 7>>, <<10, 12>>, <<10, 22>>, <<23, 52>> },
        us \in {0, 500000} }

\* The start times another client of the service may give an entry.
ExternalStarts == { format_iso(t) : t \in {r \in ClockReadings : r.microsecond = 0} }

\* created_with of the tool's entries.
ToolName == "toggl-cli-script"

\* GET /me/time_entries/current: the running entry (the latest, should there
\* be several), or null.
get_current_entry(entries) ==
    IF entries = {} THEN None
    ELSE Some(CHOOSE e \in entries : \A f \in entries : f.id <= e.id)

\* The configs start and end find on disk: none, or the first generation's
\* projects, project 0 with alias "a", with no default or a default.
TrackConfigs ==
    {None} \cup
    { Some(Config([k \in 1..Len(fetch_projects([active |-> ProjectIds, gen |-> 0])) |->
                      LET p == fetch_projects([active |-> ProjectIds, gen |-> 0])[k]
                      IN  IF p.id = 0 THEN [p EXCEPT !.alias = Some(<<97>>)] ELSE p],
                  d)) : d \in {None, Some(0), Some(1)} }

\* -p values: omitted, "a", "P1", "zz".
StartSelectors == { None, Some(<<97>>), Some(<<80, 49>>), Some(<<122, 122>>) }

\* The stop time handle_end computes from the entry's start and the clock:
\* rounded up when both round down to the same boundary, down otherwise.
final_end_time(start_time, end_time_actual) ==
    IF round_time_down(start_time) = round_time_down(end_time_actual)
    THEN round_time_up(end_time_actual)
    ELSE round_time_down(end_time_actual)

ConfigUnchanged == UNCHANGED <<remote, cfg, pc, menu, edited, arg, ret>>

\* A command prints an error and exits with status 1 before it has read the
\* clock or sent a mutating request.
CommandFails(cmd, msg) ==
    /\ out' = Out(cmd, 1, msg)
    /\ request' = NoRequest
    /\ UNCHANGED <<clock, running, nextId>>

\* The payload handle_start builds for the project at clock reading now.
start_payload(project, billable, now) ==
    [description |-> "work",
     workspace_id |-> project.workspace_id,
     project_id |-> project.id,
     start |-> format_iso(round_time_down(now)),
     duration |-> -1,
     created_with |-> ToolName,
     billable |-> billable /\ project.billable]

\* POST /workspaces/{workspace_id}/time_entries and the report of its answer;
\* the service creates the running entry.
PostTimeEntry(project, billable, now, has_id) ==
    LET payload == start_payload(project, billable, now)
    IN  /\ nextId <= MaxEntries
        /\ DtLt(clock, now)
        /\ clock' = now
        /\ request' = [method |-> "POST", workspace_id |-> project.workspace_id, data |-> payload]
        /\ running' = running \cup {[id |-> nextId, workspace_id |-> payload.workspace_id,
                                     start |-> payload.start, created_with |-> payload.created_with]}
        /\ nextId' = nextId + 1
        /\ out' = IF has_id THEN Out("start", 0, "Task started")
                  ELSE Out("start", 1, "Failed to start task")

\* A start that does not ask the service for the running entry.
HandleStart_unguarded(selector, billable, now, has_id) ==
    /\ pc = "shell"
    /\ IF cfg = None
       THEN CommandFails("start", "Setup incomplete")
       ELSE IF get_project(cfg[1], selector) = None
       THEN CommandFails("start", "No project")
       ELSE PostTimeEntry(get_project(cfg[1], selector)[1], billable, now, has_id)
    /\ ConfigUnchanged

\* handle_start.  selector and billable are the command's arguments, now is
\* the clock reading (later than the previous one), has_id tells whether the
\* service's answer to the POST carries an id.
HandleStart(selector, billable, now, has_id) ==
    /\ pc = "shell"
    /\ IF cfg = None
       THEN CommandFails("start", "Setup incomplete")
       ELSE IF get_current_entry(running) # None
       THEN CommandFails("start", "A task is already running")
       ELSE IF get_project(cfg[1], selector) = None
       THEN CommandFails("start", "No project")
       ELSE PostTimeEntry(get_project(cfg[1], selector)[1], billable, now, has_id)
    /\ ConfigUnchanged

\* A variant that takes an answer without a body for a failed stop.
stop_report_strict(has_body) ==
    IF has_body THEN Out("end", 0, "Task stopped successfully")
    ELSE Out("end", 1, "Stop failed")

\* What handle_end reports after the PATCH returned without raising:
\* an answer with a body and an empty answer both count as success.
stop_report(has_body) ==
    IF has_body THEN Out("end", 0, "Task stopped successfully")
    ELSE Out("end", 0, "Assuming success")

\* handle_end.  now is the clock reading, has_body tells whether the
\* service's answer to the PATCH carries the stopped entry.
HandleEnd(now, has_body) ==
    /\ pc = "shell"
    /\ IF cfg = None
       THEN CommandFails("end", "Setup incomplete")
       ELSE IF get_current_entry(running) = None
       THEN CommandFails("end", "No task running")
       ELSE LET current_entry == get_current_entry(running)[1]
                start_time    == fromisoformat(current_entry.start)
            IN  /\ DtLt(clock, now)
                /\ clock' = now
                /\ request' = [method |-> "PATCH",
                               workspace_id |-> current_entry.workspace_id,
                               task_id |-> current_entry.id,
                               data |-> [stop |-> format_iso(final_end_time(start_time, now))]]
                /\ running' = running \ {current_entry}
                /\ out' = stop_report(has_body)
                /\ UNCHANGED nextId
    /\ ConfigUnchanged

\* Another client of the service (the web page, a phone) starts an entry
\* with a start time of its choosing; the service runs one entry at a time.
ExternalStart(start) ==
    /\ running = {}
    /\ nextId <= MaxEntries
    /\ running' = {[id |-> nextId, workspace_id |-> 100, start |-> start, created_with |-> "web"]}
    /\ nextId' = nextId + 1
    /\ UNCHANGED <<clock, request, out>>
    /\ ConfigUnchanged

\* Another client stops the running entry.
ExternalStop ==
    /\ running # {}
    /\ running' = running \ {get_current_entry(running)[1]}
    /\ UNCHANGED <<clock, nextId, request, out>>
    /\ ConfigUnchanged

InitTrack ==
    /\ cfg \in TrackConfigs
    /\ clock = Midnight
    /\ running = {}
    /\ nextId = 1
    /\ request = NoRequest
    /\ out = Out("none", 0, "")
    /\ remote = [active |-> ProjectIds, gen |-> 0]
    /\ pc = "shell"
    /\ menu = NoMenu
    /\ edited = {}
    /\ arg = None
    /\ ret = None

NextTrack ==
    \/ \E selector \in StartSelectors, billable \in BOOLEAN, now \in ClockReadings,
          has_id \in BOOLEAN : HandleStart(selector, billable, now, has_id)
    \/ \E now \in ClockReadings, has_body \in BOOLEAN : HandleEnd(now, has_body)
    \/ \E start \in ExternalStarts : ExternalStart(start)
    \/ ExternalStop

\* The start and end commands, with other clients of the service.
SpecTrack == InitTrack /\ [][NextTrack]_vars

-----------------------------------------------------------------------------
(* Claims about start and end (checked under SpecTrack).                   *)

\* A step of handle_start that is not a repetition of the same refusal:
\* only the tool's commands change what was reported, the last request or
\* the clock reading.
StartStep == out'.cmd = "start" /\ <<out, request, clock>>' # <<out, request, clock>>

\* A step of handle_end that stops the running entry at clock reading clock'.
EndStep == out'.cmd = "end" /\ out'.exit = 0 /\ clock' # clock

\* C1 as claimed: end sends as stop time the clock reading rounded up when
\* the entry's start and the reading round down to the same boundary, and
\* rounded down otherwise; and when the start is not after the reading and
\* both are in the same 15-minute block, the stop time is after the start.
C1_StopPolicy ==
    [][ EndStep =>
            LET start == fromisoformat(get_current_entry(running)[1].start)
                now   == clock'
                stop  == fromisoformat(request'.data.stop)
            IN  /\ stop = IF round_time_down(start) = round_time_down(now)
                          THEN round_time_up(now)
                          ELSE round_time_down(now)
                /\ (round_time_down(start) = round_time_down(now) /\ DtLe(start, now))
                       => DtLt(start, stop) ]_vars

\* The running entries the tool created.
ToolEntries == {e \in running : e.created_with = ToolName}

\* C10: a start while the service reports a running entry exits with
\* status 1, sends no request and changes nothing on the service; it is
\* refused as "already running" whatever the project selector (without a
\* config file the command has exited before it asks the service); so at
\* most one entry created by the tool is ever running.
C10_NoStartWhileRunning ==
    /\ [](Cardinality(ToolEntries) <= 1)
    /\ [][ (running # {} /\ StartStep) =>
                /\ out'.exit = 1
                /\ cfg # None => out' = Out("start", 1, "A task is already running")
                /\ request' = NoRequest
                /\ running' = running
                /\ nextId' = nextId
                /\ clock' = clock ]_vars

\* A start was refused while an entry the tool created was running.
C10_Witness ==
    /\ out = Out("start", 1, "A task is already running")
    /\ request = NoRequest
    /\ ToolEntries # {}

\* A step of handle_end, failed or not, that is not a repetition of the
\* same refusal.
EndCommandStep == out'.cmd = "end" /\ <<out, request, clock>>' # <<out, request, clock>>

\* The request of an end step is the one PATCH that stops entry e, and the
\* command exits with status 0 whatever the body of the answer.
StopsEntry(e) ==
    /\ request'.method = "PATCH"
    /\ request'.task_id = e.id
    /\ request'.workspace_id = e.workspace_id
    /\ running' = running \ {e}
    /\ out'.exit = 0

\* An end step that sends nothing and exits with status 1.
EndRefused ==
    /\ out'.exit = 1
    /\ request' = NoRequest
    /\ running' = running
    /\ clock' = clock

\* C11 as claimed: an end with no running entry exits with status 1 and
\* sends no stop request; an end with a running entry sends one stop
\* request, for that entry's id and workspace, and exits with status 0
\* whether or not the answer has a body.
C11_EndStopsRunningEntry ==
    [][ EndCommandStep =>
            IF running = {}
            THEN EndRefused
            ELSE StopsEntry(get_current_entry(running)[1]) ]_vars

\* C11: once a config file exists, an end with no running entry exits with
\* status 1 as "no task running" and sends no stop request, and an end
\* with a running entry sends one stop request, for that entry's id and
\* workspace, and exits with status 0 whether or not the answer has a
\* body; without a config file the command exits with status 1 as "setup
\* incomplete" before it asks the service, running entry or not.
C11_EndStopsRunningEntryAfterSetup ==
    [][ EndCommandStep =>
            IF cfg = None
            THEN EndRefused /\ out' = Out("end", 1, "Setup incomplete")
            ELSE IF running = {}
            THEN EndRefused /\ out' = Out("end", 1, "No task running")
            ELSE StopsEntry(get_current_entry(running)[1]) ]_vars

\* An end stopped the running entry, the answer to its stop request had no
\* body, and the command reported success.
C11_Witness ==
    /\ out = Out("end", 0, "Assuming success")
    /\ request.method = "PATCH"
    /\ running = {}
    /\ cfg # None

-----------------------------------------------------------------------------
(* Project.__lt__ and projects.sort() as functions (SpecOrder).            *)

\* Client names and project names of the compared projects: two clients
\* that are not the fallback, the fallback, and no client; a name and a
\* longer name that starts with it.
OrderClients == {None, Some(<<65, 99, 109, 101>>), Some(<<90, 101, 116, 97>>),
                 Some(DEFAULT_CLIENT)}
OrderNames == {<<97>>, <<97, 98>>}
OrderProjects ==
    {Project(id, name, 100, client, None, TRUE) :
        id \in {0, 1}, name \in OrderNames, client \in OrderClients}

\* arg is a list of three projects.
InitOrder ==
    /\ arg \in [1..3 -> OrderProjects]
    /\ ret = [fn |-> "none"]
    /\ remote = [active |-> {}, gen |-> 0]
    /\ cfg = None
    /\ pc = "shell"
    /\ menu = NoMenu
    /\ edited = {}
    /\ clock = Midnight
    /\ running = {}
    /\ nextId = 1
    /\ request = NoRequest
    /\ out = Out("none", 0, "")

\* arg[i] < arg[j] for every pair of the list.
CallLt ==
    /\ ret' = [fn |-> "__lt__",
               value |-> [i \in 1..3 |-> [j \in 1..3 |-> ProjectLt(arg[i], arg[j])]]]
    /\ UNCHANGED <<remote, cfg, pc, menu, edited, clock, running, nextId, request, out, arg>>

\* arg.sort()
CallSort ==
    /\ ret' = [fn |-> "sort", value |-> SortProjects(arg)]
    /\ UNCHANGED <<remote, cfg, pc, menu, edited, clock, running, nextId, request, out, arg>>

NextOrder == CallLt \/ CallSort

SpecOrder == InitOrder /\ [][NextOrder]_vars

-----------------------------------------------------------------------------
(* Claims about the ordering of projects (checked under SpecOrder).        *)

\* The rank the claim gives a project's client.
ClientRank(p) ==
    IF p.client = None THEN 2
    ELSE IF p.client = Some(DEFAULT_CLIENT) THEN 1
    ELSE 0

\* The client's name, the empty string standing for no client (all
\* projects without a client have the same rank).
ClientName(p) == IF p.client = None THEN <<>> ELSE p.client[1]

\* The lexicographic order on (client rank, client name, project name),
\* strings compared by code point.
LexLt(p, q) ==
    \/ ClientRank(p) < ClientRank(q)
    \/ /\ ClientRank(p) = ClientRank(q)
       /\ StrLt(ClientName(p), ClientName(q))
    \/ /\ ClientRank(p) = ClientRank(q)
       /\ ClientName(p) = ClientName(q)
       /\ StrLt(p.name, q.name)

\* The number of positions of s that hold x.
Occurrences(s, x) == Cardinality({i \in DOMAIN s : s[i] = x})

\* C12: p < q is the lexicographic order on (client rank, client name,
\* project name), rank 0 for a client other than the fallback, 1 for the
\* fallback and 2 for no client; it is irreflexive and transitive, and
\* being incomparable is transitive; and sorting a list permutes it so
\* that named clients come first in order of name, then the fallback
\* client, then the projects without a client, projects of one client in
\* order of project name.
C12_ProjectOrdering ==
    /\ ret.fn = "__lt__" =>
          LET lt == ret.value
          IN  /\ \A i, j \in 1..3 : lt[i][j] = LexLt(arg[i], arg[j])
              /\ \A i \in 1..3 : ~lt[i][i]
              /\ \A i, j, k \in 1..3 : (lt[i][j] /\ lt[j][k]) => lt[i][k]
              /\ \A i, j, k \in 1..3 :
                    (~lt[i][j] /\ ~lt[j][i] /\ ~lt[j][k] /\ ~lt[k][j])
                        => (~lt[i][k] /\ ~lt[k][i])
    /\ ret.fn = "sort" =>
          LET sorted == ret.value
          IN  /\ Len(sorted) = 3
              /\ \A x \in OrderProjects : Occurrences(sorted, x) = Occurrences(arg, x)
              /\ \A i, j \in 1..3 :
                    i < j =>
                        /\ ClientRank(sorted[i]) <= ClientRank(sorted[j])
                        /\ ClientRank(sorted[i]) = ClientRank(sorted[j])
                              => ~StrLt(ClientName(sorted[j]), ClientName(sorted[i]))
                        /\ sorted[i].client = sorted[j].client
                              => ~StrLt(sorted[j].name, sorted[i].name)

\* A list that starts with a project without a client, then one of the
\* fallback client, then one of another client, was sorted into the
\* reverse order.
C12_Witness ==
    /\ ret.fn = "sort"
    /\ ClientRank(arg[1]) = 2
    /\ ClientRank(arg[2]) = 1
    /\ ClientRank(arg[3]) = 0
    /\ ret.value = <<arg[3], arg[2], arg[1]>>

-----------------------------------------------------------------------------
(* ProjectMenu._shortcut_for_index as a function (SpecShortcut).           *)

\* The largest menu index tried.
MaxIndex == 37

\* shortcut_from_char: "[c] " for a character, "" for none.
shortcut_from_char(char) ==
    IF Len(char) > 0 THEN <<91>> \o char \o <<93, 32>> ELSE <<>>

\* ProjectMenu._shortcut_for_index, for index >= 0 (the menu numbers its
\* entries from 0).  str(index) of a single digit is the character
\* 48 + index; ord("a") = 97, ord("q") = 113, ord("z") = 122.
shortcut_for_index(index) ==
    IF index < 10
    THEN shortcut_from_char(<<48 + index>>)
    ELSE LET letter  == index - 10 + 97
             shifted == IF letter >= 113 THEN letter + 1 ELSE letter
         IN  IF shifted < 122 THEN shortcut_from_char(<<shifted>>) ELSE <<>>

\* arg is a pair of menu indices.
InitShortcut ==
    /\ arg \in (0..MaxIndex) \X (0..MaxIndex)
    /\ ret = [fn |-> "none"]
    /\ remote = [active |-> {}, gen |-> 0]
    /\ cfg = None
    /\ pc = "shell"
    /\ menu = NoMenu
    /\ edited = {}
    /\ clock = Midnight
    /\ running = {}
    /\ nextId = 1
    /\ request = NoRequest
    /\ out = Out("none", 0, "")

\* The labels of both indices.
CallShortcutForIndex ==
    /\ ret' = [fn |-> "_shortcut_for_index",
               value |-> <<shortcut_for_index(arg[1]), shortcut_for_index(arg[2])>>]
    /\ UNCHANGED <<remote, cfg, pc, menu, edited, clock, running, nextId, request, out, arg>>

NextShortcut == CallShortcutForIndex

SpecShortcut == InitShortcut /\ [][NextShortcut]_vars

-----------------------------------------------------------------------------
(* Claims about the menu shortcuts (checked under SpecShortcut).           *)

\* The characters the claim assigns, in order: the digits 0-9, the letters
\* a-p, the letters r-z.
ClaimedChars ==
    [i \in 1..10 |-> 47 + i] \o [i \in 1..16 |-> 96 + i] \o [i \in 1..9 |-> 113 + i]

\* The label "[c] " of character code c.
LabelOf(c) == <<91, c, 93, 32>>

\* C13 as claimed: indices 0-9 get the digits 0-9, the following indices
\* the letters a-p then r-z in order, so that every letter through "z"
\* except "q" is assigned; no index gets "q"; two different indices that
\* get a label get different labels; and the indices after the one that
\* gets "z" get no label.
C13_ShortcutForIndex ==
    ret.fn = "_shortcut_for_index" =>
        /\ ret.value[1] = IF arg[1] < Len(ClaimedChars)
                          THEN LabelOf(ClaimedChars[arg[1] + 1])
                          ELSE <<>>
        /\ ret.value[1] # LabelOf(113)
        /\ (arg[1] # arg[2] /\ ret.value[1] # <<>>) => ret.value[1] # ret.value[2]

====
